---- MODULE Spec2Model ----
(***************************************************************************)
(* Model of Wigle-BT.py: a configuration loader, a location resolver that  *)
(* issues one HTTP GET, a formatter, and main with its two modes (the      *)
(* command-line mode and the interactive menu loop).                       *)
(*                                                                         *)
(* Text is modelled in two ways.  A text the program only builds is a TLA+ *)
(* string, built with \o.  A text the program takes apart or tests (the    *)
(* --mac and --output values, an address typed at the prompt, the          *)
(* rendering of a tuple) is the sequence of its characters, each a string  *)
(* of length one, so that split, strip and replace are computed character  *)
(* by character as Python computes them; Join turns it into a string.      *)
(* The alphabet is ASCII: Python's non-ASCII whitespace (U+0085, U+00A0,   *)
(* U+1680, U+2000 and above) cannot be written in a module and is not      *)
(* part of it.                                                             *)
(*                                                                         *)
(* Standard output is the sequence of texts written to it: print(x) writes *)
(* x followed by a newline.  input(prompt) writes the prompt alone: to     *)
(* standard error when standard input and standard output are both a       *)
(* terminal (the interpreter then reads the line itself), to standard      *)
(* output otherwise.  Standard error is the sequence of the prompts        *)
(* written to it; the traceback the interpreter writes after an uncaught   *)
(* exception has ended main is recorded as the exception, in raised.       *)
(***************************************************************************)
EXTENDS Integers, Sequences, FiniteSets, TLC

\* ------------------------------------------------------------------ bounds
\* largest number of comma-separated fields in a generated --output value
MaxTags == 3
\* largest number of menu inputs read in one interactive run
MaxChoices == 3

\* --------------------------------------------------------- program constants
HTTP_OK == 200

valid_formats == <<"full-coordinate", "latitude", "longitude", "google-maps">>

SEARCH_URL == "https://api.wigle.net/api/v2/bluetooth/search?onlymine=false&netid="

\* ------------------------------------------------------------- text helpers
RECURSIVE Join(_)
\* ''.join(chars): the string of a sequence of characters
Join(chars) ==
    IF chars = <<>> THEN "" ELSE Head(chars) \o Join(Tail(chars))

RECURSIVE JoinWith(_, _)
\* sep.join(strs)
JoinWith(sep, strs) ==
    IF strs = <<>> THEN ""
    ELSE IF Len(strs) = 1 THEN Head(strs)
    ELSE Head(strs) \o sep \o JoinWith(sep, Tail(strs))

\* print(x): the text written to standard output
print_line(x) == x \o "\n"

Digit(d) ==
    CASE d = 0 -> "0" [] d = 1 -> "1" [] d = 2 -> "2" [] d = 3 -> "3"
      [] d = 4 -> "4" [] d = 5 -> "5" [] d = 6 -> "6" [] d = 7 -> "7"
      [] d = 8 -> "8" [] d = 9 -> "9"

RECURSIVE NatChars(_)
NatChars(n) == IF n < 10 THEN <<Digit(n)>> ELSE Append(NatChars(n \div 10), Digit(n % 10))

Abs(n) == IF n < 0 THEN -n ELSE n

\* A JSON number is [float |-> BOOLEAN, n |-> Int]: the integer n when float
\* is FALSE, the float n/10 when it is TRUE.  str(x) of a Python int is its
\* decimal digits; str(x) of a float with one decimal place is the whole
\* part, a point and the decimal ("37.1", "-0.5", "12.0").  PyStrChars is
\* the characters of str(x) (and of repr(x), the same for a number).
PyStrChars(x) ==
    IF x.float
    THEN (IF x.n < 0 THEN <<"-">> ELSE <<>>)
         \o NatChars(Abs(x.n) \div 10) \o <<".", Digit(Abs(x.n) % 10)>>
    ELSE (IF x.n < 0 THEN <<"-">> ELSE <<>>) \o NatChars(Abs(x.n))

\* str(x), as a string
PyStr(x) == Join(PyStrChars(x))

\* the characters of str(location) for a 2-tuple of numbers: "(lat, lon)"
PyStrTuple(location) ==
    <<"(">> \o PyStrChars(location.lat) \o <<",", " ">>
            \o PyStrChars(location.lon) \o <<")">>

\* s.replace(ch, '') for a one-character ch
Replace(chars, ch) == SelectSeq(chars, LAMBDA c : c # ch)

RECURSIVE Split(_)
\* s.split(','): the list of the texts between the commas
Split(chars) ==
    IF \A i \in 1..Len(chars) : chars[i] # ","
    THEN <<chars>>
    ELSE LET k == CHOOSE i \in 1..Len(chars) :
                     /\ chars[i] = ","
                     /\ \A j \in 1..(i-1) : chars[j] # ","
         IN <<SubSeq(chars, 1, k-1)>> \o Split(SubSeq(chars, k+1, Len(chars)))

\* the ASCII characters str.isspace() holds of, which strip() removes: tab,
\* line feed, vertical tab, form feed, carriage return, the separators
\* 0x1c-0x1f, and the space
Whitespace == {"\t", "\n", "", "\f", "\r", "", "", "", "", " "}

RECURSIVE LStrip(_)
\* the text without its leading whitespace
LStrip(chars) ==
    IF chars # <<>> /\ Head(chars) \in Whitespace THEN LStrip(Tail(chars)) ELSE chars

RECURSIVE RStrip(_)
\* the text without its trailing whitespace
RStrip(chars) ==
    IF chars # <<>> /\ chars[Len(chars)] \in Whitespace
    THEN RStrip(SubSeq(chars, 1, Len(chars) - 1)) ELSE chars

\* fmt.strip(), as a string
Strip(chars) == Join(RStrip(LStrip(chars)))

\* [fmt.strip() for fmt in args.output.split(',')]
parse_output_formats(output) ==
    LET parts == Split(output) IN [i \in 1..Len(parts) |-> Strip(parts[i])]

InFormats(fmt) == \E i \in 1..Len(valid_formats) : valid_formats[i] = fmt

\* ------------------------------------------------------------ Python values
\* None and a 2-tuple of numbers
Zero == [float |-> FALSE, n |-> 0]
NoLocation == [none |-> TRUE, lat |-> Zero, lon |-> Zero]
Location(lat, lon) == [none |-> FALSE, lat |-> lat, lon |-> lon]

\* None and a dict, the dict as its set of <<key, value>> items
NoConfig == [none |-> TRUE, items |-> {}]
Dict(items) == [none |-> FALSE, items |-> items]
HasKey(d, k) == \E it \in d.items : it[1] = k
Get(d, k) == (CHOOSE it \in d.items : it[1] = k)[2]

\* an optional command-line argument: not given is None
NotGiven == [given |-> FALSE, val |-> <<>>]
Given(v) == [given |-> TRUE, val |-> v]

\* truth value of args.mac / args.output: None and the empty string are false
ArgTruthy(a) == a.given /\ a.val # <<>>

NotConfigMutant(c) == FALSE

\* `not config`: None and the empty dict are false
not_config(c) == c.none \/ c.items = {}

\* the truth value of `location`: None is false, a 2-tuple is true
LocationTruthy(l) == ~l.none

\* ------------------------------------------------------------------- inputs
CONFIG_AUTH == "dXNlcjprZXk="

\* state of config.json: absent, or the documented object with api_auth
ConfigFiles == {"absent", "present"}

MAC == <<"A", "A", ":", "B", "B", ":", "C", "C", ":", "D", "D", ":", "E", "E", ":", "F", "F">>

FULL_COORDINATE == <<"f", "u", "l", "l", "-", "c", "o", "o", "r", "d", "i", "n", "a", "t", "e">>
LATITUDE == <<"l", "a", "t", "i", "t", "u", "d", "e">>
LONGITUDE == <<"l", "o", "n", "g", "i", "t", "u", "d", "e">>
GOOGLE_MAPS == <<"g", "o", "o", "g", "l", "e", "-", "m", "a", "p", "s">>
ALTITUDE == <<"a", "l", "t", "i", "t", "u", "d", "e">>

\* fields an --output value is assembled from: the four tags, a tag padded
\* with spaces, a tag padded with other whitespace, an unknown tag, a tag
\* with an inner space, and the empty field
Fields ==
    { FULL_COORDINATE, LATITUDE, LONGITUDE, GOOGLE_MAPS,
      <<" ">> \o LONGITUDE \o <<" ">>,
      <<"\t">> \o LATITUDE \o <<"\r", "\n">>,
      ALTITUDE,
      LATITUDE \o <<" ">> \o LONGITUDE,
      <<>> }

RECURSIVE CommaJoin(_)
CommaJoin(fields) ==
    IF Len(fields) = 1 THEN Head(fields)
    ELSE Head(fields) \o <<",">> \o CommaJoin(Tail(fields))

OutputValues ==
    { CommaJoin(fs) : fs \in UNION { [1..n -> Fields] : n \in 1..MaxTags } }

\* the command lines: with a device identifier every --output value, without
\* one (or with an empty one) a few
Argvs ==
    { [mac |-> Given(MAC), output |-> o] :
          o \in {NotGiven} \cup { Given(v) : v \in OutputValues } }
    \cup
    { [mac |-> m, output |-> o] :
          m \in {NotGiven, Given(<<>>)},
          o \in {NotGiven, Given(LATITUDE)} }

Num(n) == [float |-> FALSE, n |-> n]
Flt(tenths) == [float |-> TRUE, n |-> tenths]
Result(lat, lon) == [trilat |-> lat, trilong |-> lon]

\* response bodies: text is response.text; json is TRUE when response.json()
\* parses it, and then has_results / results describe the parsed object
Body(text, json, has_results, results) ==
    [text |-> text, json |-> json, has_results |-> has_results, results |-> results]

JsonBodies ==
    { Body("{\"results\":[{\"trilat\":37.1,\"trilong\":-122.5}]}", TRUE, TRUE,
           <<Result(Flt(371), Flt(-1225))>>),
      Body("{\"results\":[{\"trilat\":-5,\"trilong\":120},{\"trilat\":1.0,\"trilong\":2.0}]}",
           TRUE, TRUE, <<Result(Num(-5), Num(120)), Result(Flt(10), Flt(20))>>),
      Body("{\"results\":[]}", TRUE, TRUE, <<>>),
      Body("{\"success\":false,\"message\":\"too many queries today\"}", TRUE, FALSE, <<>>) }

TextBodies ==
    { Body("<html>Unauthorized</html>", FALSE, FALSE, <<>>) }

\* a success response carries a JSON object, an error response any text
Responses ==
    { [status_code |-> HTTP_OK, body |-> b] : b \in JsonBodies }
    \cup
    { [status_code |-> s, body |-> b] : s \in {401, 429}, b \in JsonBodies \cup TextBodies }

NoResponse == [status_code |-> 0, body |-> Body("", FALSE, FALSE, <<>>)]

\* ---------------------------------------------------------------- functions
\* load_config(): the value returned and the text written
load_config(file) ==
    IF file = "present"
    THEN [ret |-> Dict({<<"api_auth", CONFIG_AUTH>>}), out |-> <<>>]
    ELSE [ret |-> NoConfig, out |-> <<print_line("Error: config file not found")>>]

Request(netid, config) ==
    [url |-> SEARCH_URL \o Join(netid),
     authorization |-> "Basic " \o Get(config, "api_auth")]

Outcome(ret, out, raised, reqs) ==
    [ret |-> ret, out |-> out, raised |-> raised, reqs |-> reqs]

\* get_location with a retry after an error response
GetLocationRetryMutant(netid, config, response) ==
    IF config.none THEN Outcome(NoLocation, <<>>, "TypeError", <<>>)
    ELSE IF ~HasKey(config, "api_auth") THEN Outcome(NoLocation, <<>>, "KeyError", <<>>)
    ELSE
    LET req == Request(netid, config)
        data == response.body
    IN  IF response.status_code # HTTP_OK
        THEN Outcome(NoLocation, <<print_line("Error: " \o response.body.text)>>, "none", <<req, req>>)
        ELSE IF ~data.json
        THEN Outcome(NoLocation, <<>>, "JSONDecodeError", <<req>>)
        ELSE IF ~data.has_results
        THEN Outcome(NoLocation, <<>>, "KeyError", <<req>>)
        ELSE IF data.results = <<>>
        THEN Outcome(NoLocation, <<print_line("Error: no results found")>>, "none", <<req>>)
        ELSE Outcome(Location(data.results[1].trilat, data.results[1].trilong),
                     <<>>, "none", <<req>>)

\* get_location parsing the body before looking at the status
GetLocationParseFirstMutant(netid, config, response) ==
    IF config.none THEN Outcome(NoLocation, <<>>, "TypeError", <<>>)
    ELSE IF ~HasKey(config, "api_auth") THEN Outcome(NoLocation, <<>>, "KeyError", <<>>)
    ELSE
    LET req == Request(netid, config)
        data == response.body
    IN  IF ~data.json
        THEN Outcome(NoLocation, <<>>, "JSONDecodeError", <<req>>)
        ELSE IF response.status_code # HTTP_OK
        THEN Outcome(NoLocation, <<print_line("Error: " \o response.body.text)>>, "none", <<req>>)
        ELSE IF ~data.has_results
        THEN Outcome(NoLocation, <<>>, "KeyError", <<req>>)
        ELSE IF data.results = <<>>
        THEN Outcome(NoLocation, <<print_line("Error: no results found")>>, "none", <<req>>)
        ELSE Outcome(Location(data.results[1].trilat, data.results[1].trilong),
                     <<>>, "none", <<req>>)

\* get_location(netid, config), given the response requests.get returns:
\* the value returned, the text written, the exception raised ("none" when
\* it returns) and the requests issued
get_location(netid, config, response) ==
    IF config.none THEN Outcome(NoLocation, <<>>, "TypeError", <<>>)
    ELSE IF ~HasKey(config, "api_auth") THEN Outcome(NoLocation, <<>>, "KeyError", <<>>)
    ELSE
    LET req == Request(netid, config)
        data == response.body
    IN  IF response.status_code # HTTP_OK
        THEN Outcome(NoLocation, <<print_line("Error: " \o response.body.text)>>, "none", <<req>>)
        ELSE IF ~data.json
        THEN Outcome(NoLocation, <<>>, "JSONDecodeError", <<req>>)
        ELSE IF ~data.has_results
        THEN Outcome(NoLocation, <<>>, "KeyError", <<req>>)
        ELSE IF data.results = <<>>
        THEN Outcome(NoLocation, <<print_line("Error: no results found")>>, "none", <<req>>)
        ELSE Outcome(Location(data.results[1].trilat, data.results[1].trilong),
                     <<>>, "none", <<req>>)

\* one pass of the loop body of format_output: the line appended for fmt
format_one(lat, lon, fmt) ==
    IF fmt = "full-coordinate" THEN <<"(" \o PyStr(lat) \o ", " \o PyStr(lon) \o ")">>
    ELSE IF fmt = "latitude" THEN <<PyStr(lat)>>
    ELSE IF fmt = "longitude" THEN <<PyStr(lon)>>
    ELSE IF fmt = "google-maps"
    THEN <<"https://www.google.com/maps/place/" \o PyStr(lat) \o "," \o PyStr(lon)>>
    ELSE <<>>

RECURSIVE FormatLoop(_, _, _)
FormatLoop(lat, lon, fmts) ==
    IF fmts = <<>> THEN <<>>
    ELSE format_one(lat, lon, Head(fmts)) \o FormatLoop(lat, lon, Tail(fmts))

FormatOutputSwapMutant(location, output_formats) ==
    FormatLoop(location.lon, location.lat, output_formats)

\* format_output(location, output_formats)
format_output(location, output_formats) ==
    FormatLoop(location.lat, location.lon, output_formats)

FirstInvalidHeadOnlyMutant(output_formats) ==
    IF ~InFormats(output_formats[1]) THEN 1 ELSE 0

\* the validation loop of main: the index of the first tag that is not in
\* valid_formats, 0 when every tag is valid
first_invalid(output_formats) ==
    IF \A i \in 1..Len(output_formats) : InFormats(output_formats[i]) THEN 0
    ELSE CHOOSE i \in 1..Len(output_formats) :
            /\ ~InFormats(output_formats[i])
            /\ \A j \in 1..(i-1) : InFormats(output_formats[j])

\* lines 93-131: the banner printed once on entering the interactive mode
BANNER ==
    << print_line("------------------------------------------------------"),
       print_line("|                  kkNXK0OOOkkOOO0                   |"),
       print_line("|              kkkNXK0OOOkkOOO0KXNkkkk               |"),
       print_line("|           dNX0OOkkkkkkkkkkkkkkkkOO0XNd             |"),
       print_line("|         ;N0OkkkkkkkkkkdokkkkkkkkkkkkkkO0N:         |"),
       print_line("|       ,XOkkkkkkkkkkkkkx  okkkkkkkkkkkkkkkOX;       |"),
       print_line("|      OOkkkkkkkkkkkkkkkx    ckkkkkkkkkkkkkkkO0      |"),
       print_line("|     XOkkkkkkkkkkkkkkkkx      :kkkkkkkkkkkkkkOX     |"),
       print_line("|    0kkkkkkkkkkkkkkkkkkx        ;kkkkkkkkkkkkkkK    |"),
       print_line("|   dOkkkkkkkkkkkkkkkkkkx          ,kkkkkkkkkkkkkd   |"),
       print_line("|  .Okkkkkkkkkkkkkkkkkkkx    .o       kkkkkkkkkkkO   |"),
       print_line("|  xkkkkkkkkkd  ;kkkkkkkx    .OKd      .kkkkkkkkkkx  |"),
       print_line("|  Okkkkkkko      ,kkkkkx    .kkOKx      .kkkkkkkkO. |"),
       print_line("| ;kkkkkkkkOXo       kkkx    .kkkk       NOkkkkkkkk: |"),
       print_line("| okkkkkkkkkkOKx      .kx    .kx       N0kkkkkkkkkko |"),
       print_line("| xkkkkkkkkkkkkOKk                  .N0kkkkkkkkkkkkx |"),
       print_line("| kkkkkkkkkkkkkkkOKO              .N0kkkkkkkkkkkkkkk |"),
       print_line("| OkkkkkkkkkkkkkkkkOK0           XOkkkkkkkkkkkkkkkkO |"),
       print_line("| kkkkkkkkkkkkkkkkkkkOKx      .XOkkkkkkkkkkkkkkkkkkk |"),
       print_line("| kkkkkkkkkkkkkkkkkkkc           kkkkkkkkkkkkkkkkkkk |"),
       print_line("| kkkkkkkkkkkkkkkkk:               kkkkkkkkkkkkkkkkk |"),
       print_line("| dkkkkkkkkkkkkkk;           .       xkkkkkkkkkkkkkd |"),
       print_line("| lkkkkkkkkkkkk,      lXx    .0N.      dkkkkkkkkkkkl |"),
       print_line("| ,kkkkkkkkkk       dKOkx    .kk0N.      dkkkkkkkkk, |"),
       print_line("|  kkkkkkkkk      xKOkkkx    .kkkk;      cOkkkkkkkk  |"),
       print_line("|  lkkkkkkkk0N  kKOkkkkkx    .kk       lXOkkkkkkkkl  |"),
       print_line("|  .kkkkkkkkkk0KOkkkkkkkx    ..      dKOkkkkkkkkkk.  |"),
       print_line("|   :kkkkkkkkkkkkkkkkkkkx          xKOkkkkkkkkkkkc   |"),
       print_line("|    dkkkkkkkkkkkkkkkkkkx        kKOkkkkkkkkkkkkd    |"),
       print_line("|     xkkkkkkkkkkkkkkkkkx      0KOkkkkkkkkkkkkkd     |"),
       print_line("|      lkkkkkkkkkkkkkkkkx    KKOkkkkkkkkkkkkkkl      |"),
       print_line("|       .kkkkkkkkkkkkkkkx  N0Okkkkkkkkkkkkkkk.       |"),
       print_line("|          kkkkkkkkkkkkkxN0kkkkkkkkkkkkkkkk.         |"),
       print_line("|            .kkkkkkkkkkOkkkkkkkkkkkkkkk.            |"),
       print_line("|                  dkkkkkkkkkkkkkkd                  |"),
       print_line("|                                                    |"),
       print_line("|----------------------------------------------------|"),
       print_line("|   Wigle-BT --- Bluetooth Device Trilateration Tool |"),
       print_line("|----------------------------------------------------|") >>

\* lines 134-137: the menu; line 138: the prompt of input()
MENU ==
    << print_line("|----------------------------------------------------|"),
       print_line("|                1. Get Device Location              |"),
       print_line("|                2. Exit                             |"),
       print_line("|----------------------------------------------------|") >>

CHOICE_PROMPT == "        Enter choice (1/2): "

NETID_PROMPT == "Enter Bluetooth network MAC address: "

\* what is typed at the menu other than "1" and "2"
OtherChoices == {"3", "", "2 "}

\* what is typed at the address prompt
NetIds == {MAC, <<>>}

\* the exception input() raises when standard input has ended
EOF_ERROR == "EOFError"

\* -------------------------------------------------------------------- state
VARIABLES
    configFile,      \* state of config.json
    args,            \* the parsed command line: [mac, output]
    pc,              \* position in main
    config,          \* main's config
    mode,            \* "none", "argument" (command-line mode) or "interactive"
    output_formats,  \* main's output_formats
    checked,         \* the tags the validation loop has looked at
    location,        \* main's location
    response,        \* the response of the last request
    requests,        \* the requests issued so far
    terminal,        \* TRUE when standard input and output are a terminal
    stdout,          \* the texts written to standard output so far
    stderr,          \* the prompts written to standard error so far
    choices,         \* the menu inputs read so far
    netids,          \* the addresses read at the address prompt so far
    raised,          \* the uncaught exception that ended the run, or "none"
    exit             \* the exit status, -1 while the process runs

vars == <<configFile, args, terminal, pc, config, mode, output_formats, checked,
          location, response, requests, stdout, stderr, choices, netids, raised, exit>>

env == <<configFile, args, terminal>>

\* input(prompt), the prompt: what it adds to standard output ...
PromptOut(prompt) == IF terminal THEN <<>> ELSE <<prompt>>

\* ... and what it adds to standard error
PromptErr(prompt) == IF terminal THEN <<prompt>> ELSE <<>>

Init ==
    /\ configFile \in ConfigFiles
    /\ args \in Argvs
    /\ pc = "load_config"
    /\ config = NoConfig
    /\ mode = "none"
    /\ output_formats = <<>>
    /\ checked = <<>>
    /\ location = NoLocation
    /\ response = NoResponse
    /\ requests = <<>>
    /\ terminal \in BOOLEAN
    /\ stdout = <<>>
    /\ stderr = <<>>
    /\ choices = <<>>
    /\ netids = <<>>
    /\ raised = "none"
    /\ exit = -1

\* the process ends: by return from main (status 0), by sys.exit(1), or by an
\* uncaught exception (the interpreter exits with status 1)
Terminate(status, exc) ==
    /\ pc' = "done"
    /\ exit' = status
    /\ raised' = exc

\* lines 60-62: config = load_config(); if not config: return
MainLoadConfig ==
    /\ pc = "load_config"
    /\ LET r == load_config(configFile) IN
       /\ config' = r.ret
       /\ stdout' = stdout \o r.out
       /\ IF not_config(r.ret)
          THEN Terminate(0, "none")
          ELSE pc' = "select_mode" /\ UNCHANGED <<exit, raised>>
    /\ UNCHANGED stderr
    /\ UNCHANGED <<env, mode, output_formats, checked, location, response,
                   requests, choices, netids>>

\* line 65, taken: if args.mac
MainCommandLineMode ==
    /\ pc = "select_mode"
    /\ ArgTruthy(args.mac)
    /\ mode' = "argument"
    /\ pc' = "check_output"
    /\ UNCHANGED stderr
    /\ UNCHANGED <<env, config, output_formats, checked, location, response,
                   requests, stdout, choices, netids, raised, exit>>

\* lines 66-68: if not args.output: error, sys.exit(1)
MainCheckOutput ==
    /\ pc = "check_output"
    /\ IF ~ArgTruthy(args.output)
       THEN /\ stdout' = Append(stdout,
                   print_line("Error: --output parameter is required when using --mac"))
            /\ Terminate(1, "none")
       ELSE /\ pc' = "validate"
            /\ UNCHANGED <<stdout, exit, raised>>
    /\ UNCHANGED stderr
    /\ UNCHANGED <<env, config, mode, output_formats, checked, location, response,
                   requests, choices, netids>>

\* lines 71-77: split and strip the --output value, then check every tag in
\* order; the first invalid one ends the run with sys.exit(1)
MainValidate ==
    /\ pc = "validate"
    /\ LET fmts == parse_output_formats(args.output.val)
           k == first_invalid(fmts)
       IN /\ output_formats' = fmts
          /\ IF k # 0
             THEN /\ checked' = SubSeq(fmts, 1, k)
                  /\ stdout' = Append(stdout,
                        print_line("Error: Invalid output format \"" \o fmts[k]
                                   \o "\". Valid formats: "
                                   \o JoinWith(", ", valid_formats)))
                  /\ Terminate(1, "none")
             ELSE /\ checked' = fmts
                  /\ pc' = "resolve"
                  /\ UNCHANGED <<stdout, exit, raised>>
    /\ UNCHANGED stderr
    /\ UNCHANGED <<env, config, mode, location, response, requests, choices, netids>>

\* line 80: location = get_location(args.mac, config); an exception raised
\* by get_location ends the run and leaves location unassigned
MainResolve ==
    /\ pc = "resolve"
    /\ \E resp \in Responses :
         LET r == get_location(args.mac.val, config, resp) IN
         /\ response' = resp
         /\ requests' = requests \o r.reqs
         /\ stdout' = stdout \o r.out
         /\ IF r.raised # "none"
            THEN /\ UNCHANGED location
                 /\ Terminate(1, r.raised)
            ELSE /\ location' = r.ret
                 /\ pc' = "emit"
                 /\ UNCHANGED <<exit, raised>>
    /\ UNCHANGED stderr
    /\ UNCHANGED <<env, config, mode, output_formats, checked, choices, netids>>

\* lines 82-89: print the formatted lines and return, or sys.exit(1)
MainEmit ==
    /\ pc = "emit"
    /\ IF LocationTruthy(location)
       THEN LET results == format_output(location, output_formats) IN
            /\ stdout' = stdout \o [i \in 1..Len(results) |-> print_line(results[i])]
            /\ Terminate(0, "none")
       ELSE /\ UNCHANGED stdout
            /\ Terminate(1, "none")
    /\ UNCHANGED stderr
    /\ UNCHANGED <<env, config, mode, output_formats, checked, location, response,
                   requests, choices, netids>>

\* line 65 not taken, lines 93-131: the interactive mode starts with the banner
MainInteractiveMode ==
    /\ pc = "select_mode"
    /\ ~ArgTruthy(args.mac)
    /\ mode' = "interactive"
    /\ stdout' = stdout \o BANNER
    /\ pc' = "menu"
    /\ UNCHANGED stderr
    /\ UNCHANGED <<env, config, output_formats, checked, location, response,
                   requests, choices, netids, raised, exit>>

\* lines 134-138, read: the menu is printed and a line is read at its prompt
ReadChoice(c) ==
    /\ pc = "menu"
    /\ Len(choices) < MaxChoices
    /\ choices' = Append(choices, c)

\* lines 134-140: choice "1" goes on to the address prompt
MenuGetLocation ==
    /\ ReadChoice("1")
    /\ stdout' = stdout \o MENU \o PromptOut(CHOICE_PROMPT)
    /\ stderr' = stderr \o PromptErr(CHOICE_PROMPT)
    /\ pc' = "netid"
    /\ UNCHANGED <<env, config, mode, output_formats, checked, location, response,
                   requests, netids, raised, exit>>

\* lines 141-146: read the address, resolve it, and print the location and
\* the URL when there is one; an exception raised by get_location ends the
\* run and leaves location as it was
MenuResolve ==
    /\ pc = "netid"
    /\ \E netid \in NetIds, resp \in Responses :
         LET r == get_location(netid, config, resp) IN
         /\ netids' = Append(netids, netid)
         /\ stderr' = stderr \o PromptErr(NETID_PROMPT)
         /\ response' = resp
         /\ requests' = requests \o r.reqs
         /\ IF r.raised # "none"
            THEN /\ stdout' = stdout \o PromptOut(NETID_PROMPT) \o r.out
                 /\ UNCHANGED location
                 /\ Terminate(1, r.raised)
            ELSE /\ stdout' = stdout \o PromptOut(NETID_PROMPT) \o r.out \o
                       (IF LocationTruthy(r.ret)
                        THEN << print_line("Location: " \o Join(PyStrTuple(r.ret))),
                                print_line("Google Maps URL:  https://www.google.com/maps/place/"
                                   \o Join(Replace(Replace(PyStrTuple(r.ret), " "), "("))) >>
                        ELSE <<>>)
                 /\ location' = r.ret
                 /\ pc' = "menu"
                 /\ UNCHANGED <<exit, raised>>
    /\ UNCHANGED <<env, config, mode, output_formats, checked, choices>>

\* lines 134-138, 147-148: choice "2" leaves the loop and main returns
MenuExit ==
    /\ ReadChoice("2")
    /\ stdout' = stdout \o MENU \o PromptOut(CHOICE_PROMPT)
    /\ stderr' = stderr \o PromptErr(CHOICE_PROMPT)
    /\ Terminate(0, "none")
    /\ UNCHANGED <<env, config, mode, output_formats, checked, location, response,
                   requests, netids>>

\* lines 134-138, 149-150: any other choice
MenuInvalid ==
    /\ \E c \in OtherChoices : ReadChoice(c)
    /\ stdout' = stdout \o MENU \o PromptOut(CHOICE_PROMPT)
                 \o <<print_line("Error: invalid choice")>>
    /\ stderr' = stderr \o PromptErr(CHOICE_PROMPT)
    /\ UNCHANGED <<env, config, mode, output_formats, checked, location, response,
                   requests, netids, pc, exit, raised>>

\* line 138: standard input has ended at the menu prompt; input() raises
\* EOFError, which nothing catches
MenuEndOfInput ==
    /\ pc = "menu"
    /\ stdout' = stdout \o MENU \o PromptOut(CHOICE_PROMPT)
    /\ stderr' = stderr \o PromptErr(CHOICE_PROMPT)
    /\ Terminate(1, EOF_ERROR)
    /\ UNCHANGED <<env, config, mode, output_formats, checked, location, response,
                   requests, choices, netids>>

\* line 141: standard input has ended at the address prompt
NetidEndOfInput ==
    /\ pc = "netid"
    /\ stdout' = stdout \o PromptOut(NETID_PROMPT)
    /\ stderr' = stderr \o PromptErr(NETID_PROMPT)
    /\ Terminate(1, EOF_ERROR)
    /\ UNCHANGED <<env, config, mode, output_formats, checked, location, response,
                   requests, choices, netids>>

Next ==
    \/ MainLoadConfig
    \/ MainCommandLineMode
    \/ MainCheckOutput
    \/ MainValidate
    \/ MainResolve
    \/ MainEmit
    \/ MainInteractiveMode
    \/ MenuGetLocation
    \/ MenuResolve
    \/ MenuExit
    \/ MenuInvalid
    \/ MenuEndOfInput
    \/ NetidEndOfInput

Spec == Init /\ [][Next]_vars

\* ------------------------------------------------------------------- claims
HasInvalidTag(output) ==
    LET fmts == parse_output_formats(output.val)
    IN  \E i \in 1..Len(fmts) : ~InFormats(fmts[i])

ValidationPasses == ArgTruthy(args.output) /\ ~HasInvalidTag(args.output)

Resolved(r, r2) == Len(r2) > Len(r)

\* C1: a finished run has exit code 1 when the configuration is missing, when
\* --output is missing or holds an invalid tag, and when the resolution of a
\* command-line run gave no location; it has exit code 0 when it succeeded.
C1_ExitCodes ==
    pc = "done" =>
      /\ (config.none => exit = 1)
      /\ (mode = "argument" /\ ~ValidationPasses => exit = 1)
      /\ (mode = "argument" /\ ValidationPasses /\ ~LocationTruthy(location) => exit = 1)
      /\ (mode = "argument" /\ ValidationPasses /\ LocationTruthy(location) => exit = 0)
      /\ (mode = "interactive" /\ raised = "none" => exit = 0)

\* C2: in command-line mode, when the split and trimmed --output value holds
\* a tag outside the four valid ones at any position, no request is ever
\* issued and the run ends with exit code 1.
C2_InvalidTagFailsBeforeRequest ==
    (mode = "argument" /\ args.output.given /\ HasInvalidTag(args.output)) =>
      /\ requests = <<>>
      /\ response = NoResponse
      /\ pc \in {"check_output", "validate", "done"}
      /\ (pc = "done" => exit = 1 /\ raised = "none")

\* a finished run that was stopped by an invalid tag standing after a valid one
C2_Witness ==
    /\ pc = "done" /\ mode = "argument" /\ exit = 1
    /\ Len(checked) >= 2
    /\ InFormats(checked[1])
    /\ ~InFormats(checked[Len(checked)])

\* C3: with --mac supplied and --output missing or empty, the run ends with a
\* non-zero exit status, and no request, no validation and no output line
\* precede that.
C3_MissingOutputFails ==
    (args.mac.given /\ ~ArgTruthy(args.output)) =>
      /\ requests = <<>>
      /\ checked = <<>>
      /\ mode # "interactive"
      /\ (pc = "done" => exit = 1)

Template(fmt, lat, lon) ==
    CASE fmt = "full-coordinate" -> "(" \o lat \o ", " \o lon \o ")"
      [] fmt = "latitude" -> lat
      [] fmt = "longitude" -> lon
      [] fmt = "google-maps" -> "https://www.google.com/maps/place/" \o lat \o "," \o lon

\* C4: for a coordinate pair and a sequence of valid tags, format_output
\* returns one line per tag, in order, each the template of its tag, and a
\* successful command-line run has written exactly these lines.
C4_FormatMatchesTemplates ==
    (mode = "argument" /\ pc \in {"emit", "done"} /\ LocationTruthy(location)) =>
      LET r == format_output(location, output_formats)
          lat == PyStr(location.lat)
          lon == PyStr(location.lon)
      IN  /\ \A i \in 1..Len(output_formats) : InFormats(output_formats[i])
          /\ Len(r) = Len(output_formats)
          /\ \A i \in 1..Len(output_formats) : r[i] = Template(output_formats[i], lat, lon)
          /\ (pc = "done" =>
                /\ exit = 0
                /\ Len(stdout) = Len(output_formats)
                /\ \A i \in 1..Len(output_formats) :
                      stdout[i] = Template(output_formats[i], lat, lon) \o "\n")
          /\ (location = Location(Flt(371), Flt(-1225))
              /\ output_formats = <<"full-coordinate", "google-maps">>
              /\ pc = "done"
              => stdout = << "(37.1, -122.5)\n",
                             "https://www.google.com/maps/place/37.1,-122.5\n" >>)

\* a successful run with three tags, one of them twice, out of template order
C4_Witness ==
    /\ pc = "done" /\ mode = "argument" /\ exit = 0
    /\ output_formats = <<"google-maps", "longitude", "google-maps">>
    /\ location = Location(Num(-5), Num(120))
    /\ Len(stdout) = 3

\* C5: a resolution whose response is 200 with an empty results collection or
\* without a results key writes "Error: no results found", gives no location
\* and raises nothing.
C5_NoResultsReported ==
    [][ ( /\ Resolved(requests, requests')
          /\ response'.status_code = HTTP_OK
          /\ (~response'.body.has_results \/ response'.body.results = <<>>) )
        => /\ raised' = "none"
           /\ ~LocationTruthy(location')
           /\ stdout'[Len(stdout')] = "Error: no results found\n" ]_vars

\* C6: a resolution whose response is not 200 writes "Error: " and the body
\* text, gives no location and raises nothing, whatever the body is.
C6_ErrorStatusReportsBody ==
    [][ ( /\ Resolved(requests, requests')
          /\ response'.status_code # HTTP_OK )
        => /\ raised' = "none"
           /\ pc' # "done"
           /\ ~LocationTruthy(location')
           /\ stdout' = stdout
                \o (IF mode = "interactive" THEN PromptOut(NETID_PROMPT) ELSE <<>>)
                \o <<"Error: " \o response'.body.text \o "\n">> ]_vars

\* an error response whose body holds a non-empty results array gave no location
C6_Witness ==
    /\ response.status_code = 429
    /\ response.body.json /\ response.body.results # <<>>
    /\ ~LocationTruthy(location)
    /\ pc = "emit"

InStdout(text) == \E i \in 1..Len(stdout) : stdout[i] = text

\* C7: when config.json is absent, load_config writes its error and returns
\* None, and main ends without a request, without validating the arguments
\* and without the banner or the menu, in either mode.
C7_AbsentConfigStopsMain ==
    configFile = "absent" =>
      /\ config.none
      /\ pc \in {"load_config", "done"}
      /\ mode = "none"
      /\ requests = <<>>
      /\ checked = <<>> /\ output_formats = <<>>
      /\ ~InStdout(BANNER[1]) /\ ~InStdout(MENU[2])
      /\ stderr = <<>>
      /\ (pc = "done" => stdout = <<"Error: config file not found\n">>)

\* a run with a device identifier and a valid --output that ended on the
\* absent configuration
C7_Witness ==
    /\ configFile = "absent" /\ pc = "done"
    /\ ArgTruthy(args.mac) /\ ValidationPasses
    /\ stdout # <<>>

\* C8: once the mode is chosen, it is the command-line mode exactly when a
\* --mac value was supplied, the empty string included, and the banner and
\* the menu are never shown to a run that supplied one.
C8_ModeBySuppliedMac ==
    /\ (mode = "argument" => args.mac.given)
    /\ (mode = "interactive" => ~args.mac.given)
    /\ (args.mac.given => ~InStdout(BANNER[1]) /\ ~InStdout(MENU[2]))

\* C9: in interactive mode, as long as standard input has not ended (the
\* interruption from outside), the run has ended exactly when some menu
\* input so far was "2".
C9_LoopEndsOnlyOnExit ==
    (mode = "interactive" /\ raised # EOF_ERROR) =>
      ((pc = "done") <=> (\E i \in 1..Len(choices) : choices[i] = "2"))

\* the stream that holds the prompts of input()
Prompts == IF terminal THEN stderr ELSE stdout

Option1Count == Cardinality({ i \in 1..Len(choices) : choices[i] = "1" })

\* C10, as stated: a command-line run issues at most one request, exactly one
\* when the validation passed and none otherwise; an interactive run has
\* issued as many requests as option 1 was chosen.
C10_OneRequestPerChoice ==
    /\ (mode = "none" => requests = <<>>)
    /\ (mode = "argument" =>
          /\ Len(requests) <= 1
          /\ (pc \in {"emit", "done"} =>
                Len(requests) = IF ValidationPasses THEN 1 ELSE 0))
    /\ (mode = "interactive" => Len(requests) = Option1Count)

\* C10, amended: a command-line run issues at most one request, exactly one
\* when the validation passed and none otherwise; an interactive run has
\* issued as many requests as addresses were read at the address prompt,
\* which is the number of times option 1 was chosen whenever the menu is
\* presented and one less while the address of the latest choice has not
\* been read, or never is because the input ended at the prompt.
C10_OneRequestPerResolution ==
    /\ (mode = "none" => requests = <<>>)
    /\ (mode = "argument" =>
          /\ Len(requests) <= 1
          /\ (pc \in {"emit", "done"} =>
                Len(requests) = IF ValidationPasses THEN 1 ELSE 0))
    /\ (mode = "interactive" =>
          /\ Len(requests) = Len(netids)
          /\ Option1Count =
               IF \/ pc = "netid"
                  \/ /\ pc = "done" /\ raised = EOF_ERROR
                     /\ Prompts[Len(Prompts)] = NETID_PROMPT
               THEN Len(netids) + 1 ELSE Len(netids))

\* an interactive run that chose option 1 twice: the first resolution was
\* answered by an error, the second ended at the address prompt
C10_Witness ==
    /\ mode = "interactive" /\ pc = "done" /\ raised = EOF_ERROR
    /\ choices = <<"1", "3", "1">>
    /\ Len(requests) = 1
    /\ response.status_code # HTTP_OK

====
